---- MODULE Spec2Model ----
(***************************************************************************)
(* Model of the rate-limited batch request engine of NDCiscoISE:           *)
(*   Req.returnPartionedList, Req.__req and Req.make_requests (src/Req.py) *)
(* One make_requests invocation is modelled: the main coroutine walks the  *)
(* partitions of req_list, every request runs the executor __req, and the  *)
(* remote server is the environment that answers each attempt.             *)
(***************************************************************************)
EXTENDS Integers, Sequences, FiniteSets, TLC

\* ------------------------------------------------------------------ bounds
\* Longest batch (req_list) of the general specification; the rate limit
\* (window size) ranges over 1..MaxBatch as well.
MaxBatch == 3
\* Number of reads of the one-window batch of the burst specification:
\* more reads than the semaphore has permits.
BurstReads == 11
\* Longest list handed to returnPartionedList in the partition specification.
MaxList == 5
\* Largest number of objects the server holds in the count-based
\* pagination specification: up to four pages of 100.
MaxTotal == 301
\* Largest number of requests of one ISE_OpenAPI walk that is followed.
MaxHops == 4
\* Largest number of pieces of a location header.
MaxLoc == 3
\* Largest number of objects of the server of the bare-list walk.
MaxItems == 45

\* ------------------------------------------------------- program constants
\* Semaphore(10): the capacity of the permit pool of one invocation.
SEMAPHORE_VALUE == 10
\* rate_limit: int = 30, the window size the catalog layer hands to Req.
DEFAULT_RATE_LIMIT == 30
\* self.__maxresults = 100: the page size ISE_GET_api asks for.
maxresults == 100

\* ------------------------------------------------------------ data, inputs
\* Methods a batch entry may carry (entry[0]): a read and a mutating one.
Methods == {"GET", "PUT"}

\* Faulty variant of IsRead: no entry is taken for a read.
IsReadNever(method) == FALSE
\* Faulty variant of IsRead: every entry is taken for a read.
IsReadAlways(method) == TRUE
\* "get" in entry[0].lower(): the read/write split of make_requests.
IsRead(method) == method = "GET"

\* The empty dict returned by __req on every failure path: return({}).
FailureMarker == [kind |-> "empty", of |-> <<>>]

\* A response of the server to one attempt. raised = TRUE stands for an
\* attempt that ended in a transport exception (timeout, reset, DNS):
\* no status was received. body is what the body decodes to: "json" (a
\* non-empty structured body), "text" (non-empty, not JSON), "none" (empty),
\* "unreadable" (response.json() and response.text() both raise).
\* loc is the location header: NoHeader, or Header(v) with v its value,
\* a sequence of pieces of text, the piece SUBMIT being "submit/".
SUBMIT == 0
NoHeader == [has |-> FALSE, v |-> <<>>]
Header(v) == [has |-> TRUE, v |-> v]
Resp(s, b, l) == [raised |-> FALSE, status |-> s, body |-> b, loc |-> l]
Raised == [raised |-> TRUE, status |-> 0, body |-> "none", loc |-> NoHeader]

\* The statuses of __HTTP_ERR_MAP.
HTTP_ERR_MAP == {400, 401, 403, 404, 405, 406, 409, 415, 422, 429, 500, 501, 503}

\* The answers the environment may give to an attempt: a success with a
\* body, a client error of the table, an error status missing from the
\* table, the server error, and no answer at all.
Responses ==
    { Resp(200, "json", NoHeader),
      Resp(404, "json", NoHeader), Resp(502, "none", NoHeader),
      Resp(500, "none", NoHeader), Raised }

Min(a, b) == IF a < b THEN a ELSE b

\* Faulty variant of returnPartionedList: the last, shorter window is lost.
returnPartionedListFull(inputlist, n) ==
    [w \in 1..(Len(inputlist) \div n) |->
        SubSeq(inputlist, (w - 1) * n + 1, w * n)]
\* returnPartionedList: [inputlist[i:i+n] for i in range(0, len(inputlist), n)]
returnPartionedList(inputlist, n) ==
    [w \in 1..((Len(inputlist) + n - 1) \div n) |->
        SubSeq(inputlist, (w - 1) * n + 1, Min(w * n, Len(inputlist)))]

\* The body decoding of a response: response.json(), else response.text(),
\* and the synthetic acknowledgement when neither yields content.  When
\* response.text() raises too, the exception leaves the try of __req and
\* "except Exception" makes the attempt return({}).
DecodeBody(url, r) ==
    CASE r.body = "json" -> [kind |-> "json", of |-> <<url>>]
      [] r.body = "text" -> [kind |-> "text", of |-> <<url>>]
      [] r.body = "unreadable" -> FailureMarker
      [] OTHER           -> [kind |-> "OK", of |-> <<url>>]

\* response.status in range(200,299)
InSuccessRange(status) == status >= 200 /\ status < 299

\* Not a result: the attempt goes on to sleep(10) and the recursive call.
Retry == [kind |-> "RETRY", of |-> <<>>]

\* "submit/" is in the header value: split("submit/",1) has an item [1].
HasMarker(v) == \E i \in DOMAIN v : v[i] = SUBMIT
\* Faulty variant of AfterMarker: what follows the last "submit/".
AfterLastMarker(v) ==
    LET i == CHOOSE i \in DOMAIN v :
                 v[i] = SUBMIT /\ \A j \in DOMAIN v : j > i => v[j] # SUBMIT
    IN  SubSeq(v, i + 1, Len(v))
\* response.headers['location'].split("submit/",1)[1]
AfterMarker(v) ==
    LET i == CHOOSE i \in DOMAIN v :
                 v[i] = SUBMIT /\ \A j \in DOMAIN v : j < i => v[j] # SUBMIT
    IN  SubSeq(v, i + 1, Len(v))

\* The 2xx branch: on a 202 the part of the location header after
\* "submit/"; when the header is missing (KeyError) or holds no "submit/"
\* (IndexError), and on every other status, the decoded body.
OnSuccess(url, r) ==
    IF r.status = 202 /\ r.loc.has /\ HasMarker(r.loc.v)
    THEN [kind |-> "jobid", of |-> AfterMarker(r.loc.v)]
    ELSE DecodeBody(url, r)

\* Faulty variant of IsServerError: every 5xx status is taken for the 500.
IsServerErrorRetried(status) == status >= 500
\* elif response.status == 500
IsServerError(status) == status = 500

\* Faulty variant of OnServerError: the retry flag is not consulted.
OnServerErrorAlwaysRetry(validate) == Retry
\* The 500 branch: if not validate, sleep and call __req again with
\* validate=True; else log "Server Error" and fall through to return({}).
OnServerError(validate) == IF ~validate THEN Retry ELSE FailureMarker

\* The else branch: the error is logged through __HTTP_ERR_MAP[status] and
\* control falls through to return({}); for a status missing from the table
\* the lookup raises KeyError inside the try, the except logs it, return({}).
OnClientError(status) ==
    IF status \in HTTP_ERR_MAP THEN FailureMarker ELSE FailureMarker

\* Faulty variant of OnException: a first attempt that raised is retried.
OnExceptionRetry(validate) == IF ~validate THEN Retry ELSE FailureMarker
\* except Exception: log "Exception Error", then return({}).
OnException(validate) == FailureMarker

\* What one attempt of __req does with its response, validate being the
\* retry flag: Retry, or the value the attempt returns.
Classify(url, r, validate) ==
    IF r.raised THEN OnException(validate)
    ELSE IF InSuccessRange(r.status) THEN OnSuccess(url, r)
    ELSE IF IsServerError(r.status) THEN OnServerError(validate)
    ELSE OnClientError(r.status)

\* Faulty variant of ReturnOfRetry: the value of the recursive call is
\* dropped and control falls through to return({}).
RetryResultLost(out) == FailureMarker
\* return(await self.__req(..., validate=True)): the first attempt returns
\* what its retry returned.
ReturnOfRetry(out) == out

\* ------------------------------------------------------------------- state
VARIABLES
    req_list,        \* the batch: a sequence of [method, url]; url = position
    RATE_LIMIT,      \* the window size (self.__RATE_LIMIT)
    pc,              \* where the main coroutine make_requests stands
    p,               \* index of the partition being processed
    e,               \* index of the entry being processed in partition p
    partitionTasks,  \* urls of the read tasks created in this partition
    resultsList,     \* the results collected so far
    semaphore,       \* the free permits of the Semaphore
    rq,              \* per url: position of its executor __req
    attempts,        \* per url: session.request calls issued so far
    hist,            \* per url: the responses its attempts received
    slept,           \* per url: whether its sleep(10) has completed
    ret,             \* per url: the value its __req returned
    windows,         \* the value returned by a returnPartionedList call
    total,           \* server: number of objects of the collection asked for
    apc,             \* where the pagination aggregator stands
    page,            \* aggregator: the page number of the request at hand
    issued,          \* the requests the aggregator has had executed, in the
                     \* order of their batches: [page, ok]
    returnResults,   \* aggregator: the objects collected so far
    api,             \* ISE_OpenAPI: the path asked for, as its parameters
    size,            \* ISE_OpenAPI: the page size in effect (0 for None)
    hops,            \* ISE_OpenAPI: one record per request of the walk:
                     \* [page, size] parsed from its path, the shape and
                     \* the number of items of its response
    verification     \* the value returned by a boolean catalog operation:
                     \* "True" or "False", "unset" before its return

\* The state of one make_requests invocation.
reqVars == <<req_list, RATE_LIMIT, pc, p, e, partitionTasks, resultsList,
             semaphore, rq, attempts, hist, slept, ret>>
\* The state of the callers and helpers around it, which no step of
\* make_requests touches.
layerVars == <<windows, total, apc, page, issued, returnResults, api, size, hops,
               verification>>
\* Their state before anything is called.
LayerIdle ==
    /\ windows = <<>>
    /\ total = 0
    /\ apc = "idle"
    /\ page = 0
    /\ issued = <<>>
    /\ returnResults = <<>>
    /\ api = <<>>
    /\ size = 0
    /\ hops = <<>>
    /\ verification = "unset"

vars == <<reqVars, layerVars>>

Urls == 1..Len(req_list)
partitions == returnPartionedList(req_list, RATE_LIMIT)

\* Positions of an executor: not called yet; entering "async with semaphore";
\* inside session.request; inside sleep(10); returned.
Idle == [at |-> "idle", validate |-> FALSE]
Done == [at |-> "done", validate |-> FALSE]

\* All batches of n entries over Methods, the url of an entry its position.
Batches(n) ==
    { [i \in 1..n |-> [method |-> ms[i], url |-> i]] : ms \in [1..n -> Methods] }

\* State shared by every specification once the batch is chosen:
\* resultsList = [], Semaphore(10), no request started.
InitRun ==
    /\ pc = "entries"
    /\ p = 1
    /\ e = 1
    /\ partitionTasks = <<>>
    /\ resultsList = <<>>
    /\ semaphore = SEMAPHORE_VALUE
    /\ rq = [u \in Urls |-> Idle]
    /\ attempts = [u \in Urls |-> 0]
    /\ hist = [u \in Urls |-> <<>>]
    /\ slept = [u \in Urls |-> FALSE]
    /\ ret = [u \in Urls |-> FailureMarker]
    /\ LayerIdle

Init ==
    /\ req_list \in UNION { Batches(n) : n \in 1..MaxBatch }
    /\ RATE_LIMIT \in 1..MaxBatch
    /\ InitRun

\* ------------------------------------------------- main coroutine actions
entry == partitions[p][e]

\* Shapes of a batch entry: [method, url] (a payload changes nothing here),
\* [method] with no url (url = 0), and the empty entry [].
NoUrl(method) == [method |-> method, url |-> 0]
EmptyEntry == [method |-> "", url |-> 0]
\* entry[0] and entry[1] exist.
WellFormed(en) == en # EmptyEntry /\ en.url # 0

\* for entry in partition: a read entry becomes a task (create_task), which
\* starts by entering "async with semaphore".
CreateTask ==
    /\ pc = "entries"
    /\ e <= Len(partitions[p])
    /\ WellFormed(entry)
    /\ IsRead(entry.method)
    /\ partitionTasks' = Append(partitionTasks, entry.url)
    /\ rq' = [rq EXCEPT ![entry.url] = [at |-> "acquire", validate |-> FALSE]]
    /\ e' = e + 1
    /\ UNCHANGED <<req_list, RATE_LIMIT, pc, p, resultsList, semaphore,
                   attempts, hist, slept, ret>>
    /\ UNCHANGED layerVars

\* A mutating entry is executed inline: result = await self.__req(...)
CallInline ==
    /\ pc = "entries"
    /\ e <= Len(partitions[p])
    /\ WellFormed(entry)
    /\ ~IsRead(entry.method)
    /\ rq' = [rq EXCEPT ![entry.url] = [at |-> "acquire", validate |-> FALSE]]
    /\ pc' = "await"
    /\ UNCHANGED <<req_list, RATE_LIMIT, p, e, partitionTasks, resultsList,
                   semaphore, attempts, hist, slept, ret>>
    /\ UNCHANGED layerVars

\* Faulty variant of InlineReturn: the inline call is not awaited to its end.
InlineReturnEarly ==
    /\ pc = "await"
    /\ resultsList' = Append(resultsList, ret[entry.url])
    /\ e' = e + 1
    /\ pc' = "entries"
    /\ UNCHANGED <<req_list, RATE_LIMIT, p, partitionTasks, semaphore, rq,
                   attempts, hist, slept, ret>>
    /\ UNCHANGED layerVars
\* The awaited inline call has returned: resultsList.append(result).
InlineReturn ==
    /\ pc = "await"
    /\ rq[entry.url].at = "done"
    /\ resultsList' = Append(resultsList, ret[entry.url])
    /\ e' = e + 1
    /\ pc' = "entries"
    /\ UNCHANGED <<req_list, RATE_LIMIT, p, partitionTasks, semaphore, rq,
                   attempts, hist, slept, ret>>
    /\ UNCHANGED layerVars

\* Faulty variant of GatherResults: the results come last task first.
GatherResultsReversed(tasks, r) ==
    [t \in 1..Len(tasks) |-> r[tasks[Len(tasks) + 1 - t]]]
\* Faulty variant of GatherResults: empty results are not appended.
GatherResultsDropEmpty(tasks, r) ==
    LET Kept(x) == x # FailureMarker
    IN  SelectSeq([t \in 1..Len(tasks) |-> r[tasks[t]]], Kept)
\* The results of gather(*partitionTasks): one per task, in task order.
GatherResults(tasks, r) == [t \in 1..Len(tasks) |-> r[tasks[t]]]

\* Faulty variant of Gather: the tasks are not awaited before going on.
GatherWithoutAwait ==
    /\ pc = "entries"
    /\ e > Len(partitions[p])
    /\ resultsList' = resultsList \o GatherResults(partitionTasks, ret)
    /\ pc' = "pace"
    /\ UNCHANGED <<req_list, RATE_LIMIT, p, e, partitionTasks, semaphore, rq,
                   attempts, hist, slept, ret>>
    /\ UNCHANGED layerVars
\* End of the entries of a partition: if partitionTasks, await gather and
\* append each result; then go on to sleep(1.1).
Gather ==
    /\ pc = "entries"
    /\ e > Len(partitions[p])
    /\ \A t \in 1..Len(partitionTasks) : rq[partitionTasks[t]].at = "done"
    /\ resultsList' = resultsList \o GatherResults(partitionTasks, ret)
    /\ pc' = "pace"
    /\ UNCHANGED <<req_list, RATE_LIMIT, p, e, partitionTasks, semaphore, rq,
                   attempts, hist, slept, ret>>
    /\ UNCHANGED layerVars

\* sleep(1.1) has elapsed: the next partition starts, or the loop is over
\* and make_requests returns resultsList.
Pace ==
    /\ pc = "pace"
    /\ IF p < Len(partitions)
       THEN /\ p' = p + 1
            /\ e' = 1
            /\ partitionTasks' = <<>>
            /\ pc' = "entries"
       ELSE /\ pc' = "returned"
            /\ UNCHANGED <<p, e, partitionTasks>>
    /\ UNCHANGED <<req_list, RATE_LIMIT, resultsList, semaphore, rq,
                   attempts, hist, slept, ret>>
    /\ UNCHANGED layerVars

\* ------------------------------------------------------- executor actions
\* Faulty variant of CanAcquire: the permit count is not consulted.
CanAcquireAlways(free) == TRUE
\* Semaphore.acquire succeeds only while a permit is free.
CanAcquire(free) == free > 0

\* Faulty variant of PermitsReleased: the permit kept by the first attempt
\* is not given back when its retry returns.
PermitsReleasedOwnOnly(validate) == 1
\* Permits given back when an attempt returns: the one of its own
\* "async with semaphore", and for the retry also the one its caller (the
\* first attempt) kept across sleep(10) and the recursive call.
PermitsReleased(validate) == IF validate THEN 2 ELSE 1

\* The event loop is cooperative: an executor runs only while the main
\* coroutine is suspended in an await (of an inline call, of gather or of
\* sleep), never between two entries of the for loop; and no call goes out
\* once make_requests has raised, which closes the session.
MainSuspended ==
    \/ pc \in {"await", "pace", "returned"}
    \/ pc = "entries" /\ e > Len(partitions[p])

\* async with semaphore: ... session.request(...): the attempt takes a permit
\* and its call goes out.
Acquire(u) ==
    /\ rq[u].at = "acquire"
    /\ MainSuspended
    /\ CanAcquire(semaphore)
    /\ semaphore' = semaphore - 1
    /\ rq' = [rq EXCEPT ![u].at = "request"]
    /\ attempts' = [attempts EXCEPT ![u] = @ + 1]
    /\ UNCHANGED <<req_list, RATE_LIMIT, pc, p, e, partitionTasks,
                   resultsList, hist, slept, ret>>
    /\ UNCHANGED layerVars

\* Faulty variant of RetryPosition: the recursive call is made at once.
RetryWithoutSleep == [at |-> "acquire", validate |-> TRUE]
\* if not validate: await sleep(10), the permit of the attempt still held.
RetryPosition == [at |-> "sleep", validate |-> FALSE]

\* The attempt of u gets its answer r and acts on it.
Respond(u, r) ==
    /\ rq[u].at = "request"
    /\ MainSuspended
    /\ hist' = [hist EXCEPT ![u] = Append(@, r)]
    /\ LET out == Classify(u, r, rq[u].validate) IN
       IF out = Retry
       THEN /\ rq' = [rq EXCEPT ![u] = RetryPosition]
            /\ UNCHANGED <<semaphore, ret>>
       ELSE /\ rq' = [rq EXCEPT ![u] = Done]
            /\ ret' = [ret EXCEPT ![u] =
                          IF rq[u].validate THEN ReturnOfRetry(out) ELSE out]
            /\ semaphore' = semaphore + PermitsReleased(rq[u].validate)
    /\ UNCHANGED <<req_list, RATE_LIMIT, pc, p, e, partitionTasks,
                   resultsList, attempts, slept>>
    /\ UNCHANGED layerVars

\* sleep(10) is over: return(await self.__req(..., validate=True)), which
\* enters "async with semaphore" again, the first permit still held.
Backoff(u) ==
    /\ rq[u].at = "sleep"
    /\ MainSuspended
    /\ rq' = [rq EXCEPT ![u] = [at |-> "acquire", validate |-> TRUE]]
    /\ slept' = [slept EXCEPT ![u] = TRUE]
    /\ UNCHANGED <<req_list, RATE_LIMIT, pc, p, e, partitionTasks,
                   resultsList, semaphore, attempts, hist, ret>>
    /\ UNCHANGED layerVars

Next ==
    \/ CreateTask
    \/ CallInline
    \/ InlineReturn
    \/ Gather
    \/ Pace
    \/ \E u \in Urls : Acquire(u)
    \/ \E u \in Urls, r \in Responses : Respond(u, r)
    \/ \E u \in Urls : Backoff(u)

Spec == Init /\ [][Next]_vars

\* ---------------------------------------------- the contract specification
\* make_requests from its first line, on batches that may be empty or hold
\* entries without a url or empty entries at any position.
Entries(i) == { [method |-> m, url |-> i] : m \in Methods }
               \cup { NoUrl(m) : m \in Methods } \cup { EmptyEntry }
AnyBatches(n) ==
    { b \in [1..n -> UNION { Entries(i) : i \in 1..n }] :
        \A i \in 1..n : b[i] \in Entries(i) }

InitContract ==
    /\ req_list \in UNION { AnyBatches(n) : n \in 0..MaxBatch }
    /\ RATE_LIMIT \in 1..MaxBatch
    /\ pc = "check"
    /\ p = 1
    /\ e = 1
    /\ partitionTasks = <<>>
    /\ resultsList = <<>>
    /\ semaphore = SEMAPHORE_VALUE
    /\ rq = [u \in Urls |-> Idle]
    /\ attempts = [u \in Urls |-> 0]
    /\ hist = [u \in Urls |-> <<>>]
    /\ slept = [u \in Urls |-> FALSE]
    /\ ret = [u \in Urls |-> FailureMarker]
    /\ LayerIdle

\* if not req_list or not req_list[0]: raise Exception(...)
CheckBatch ==
    /\ pc = "check"
    /\ pc' = IF req_list = <<>> \/ req_list[1] = EmptyEntry
             THEN "raised" ELSE "entries"
    /\ UNCHANGED <<req_list, RATE_LIMIT, p, e, partitionTasks, resultsList,
                   semaphore, rq, attempts, hist, slept, ret>>
    /\ UNCHANGED layerVars

\* The for loop reaches an entry that lacks entry[0] or entry[1]: the
\* subscript raises IndexError, which leaves make_requests.
RaiseOnEntry ==
    /\ pc = "entries"
    /\ e <= Len(partitions[p])
    /\ ~WellFormed(entry)
    /\ pc' = "raised"
    /\ UNCHANGED <<req_list, RATE_LIMIT, p, e, partitionTasks, resultsList,
                   semaphore, rq, attempts, hist, slept, ret>>
    /\ UNCHANGED layerVars

NextContract ==
    \/ CheckBatch
    \/ RaiseOnEntry
    \/ Next

SpecContract == InitContract /\ [][NextContract]_vars

\* --------------------------------------- count-based pagination (ISE_GET_api)
\* No make_requests invocation of its own is followed here: __execute hands
\* a batch of GETs to make_requests and gets one result per request, in
\* request order for a batch of reads, each the page asked for or the
\* failure marker.
ReqIdle ==
    /\ req_list = <<>>
    /\ RATE_LIMIT = DEFAULT_RATE_LIMIT
    /\ pc = "idle"
    /\ p = 1
    /\ e = 1
    /\ partitionTasks = <<>>
    /\ resultsList = <<>>
    /\ semaphore = SEMAPHORE_VALUE
    /\ rq = <<>>
    /\ attempts = <<>>
    /\ hist = <<>>
    /\ slept = <<>>
    /\ ret = <<>>

\* Faulty variant of returnNearestHundreds: rounds down.
returnNearestHundredsDown(integer) == (integer \div 100) * 100
\* __returnNearestHundreds: int((-(-int(integer) // 100))*100)
returnNearestHundreds(integer) == (-((-integer) \div 100)) * 100

\* The server: the objects 1..total, served in pages of sz objects;
\* the page k of a collection ("resources" of the SearchResult).
Resources(k, sz) ==
    [i \in 1..(IF k * sz <= total THEN sz
               ELSE IF (k - 1) * sz >= total THEN 0
               ELSE total - (k - 1) * sz) |-> (k - 1) * sz + i]

InitGetApi ==
    /\ ReqIdle
    /\ windows = <<>>
    /\ total \in 0..MaxTotal
    /\ apc = "get"
    /\ page = 1
    /\ issued = <<>>
    /\ returnResults = <<>>
    /\ api = <<>>
    /\ size = 0
    /\ hops = <<>>
    /\ verification = "unset"

\* result = await self.__execute([["GET", url]]) for page 1, and what
\* follows from it: nothing on a failure marker; the one result itself when
\* it is no SearchResult; else its resources, and the batch of the pages
\* 2..parts when the total it reports is above 100.
\* shape: "page" (a SearchResult), "other" (a success of another shape),
\* "fail" (the failure marker).
GetFirstPage(shape) ==
    /\ apc = "get"
    /\ issued' = <<[page |-> page, ok |-> shape # "fail"]>>
    /\ CASE shape = "fail" ->
              /\ apc' = "returned"
              /\ UNCHANGED returnResults
         [] shape = "other" ->
              /\ apc' = "returned"
              /\ returnResults' = <<0>>
         [] OTHER ->
              /\ returnResults' = returnResults \o Resources(page, maxresults)
              /\ apc' = IF total > 100 THEN "follow" ELSE "returned"
    /\ UNCHANGED <<windows, total, page, api, size, hops, verification>>
    /\ UNCHANGED reqVars

\* parts = int(self.__returnNearestHundreds(total_entries)/100)
Parts == returnNearestHundreds(total) \div 100

RECURSIVE AppendPages(_, _, _)
\* for entries in results: for device in entries['SearchResult']['resources']:
\* returnResults.append(device), results[k] being page first+k-1; the
\* subscript raises KeyError on a failure marker, which ends the loops.
AppendPages(acc, oks, first) ==
    IF oks = <<>> \/ ~Head(oks) THEN acc
    ELSE AppendPages(acc \o Resources(first, maxresults), Tail(oks), first + 1)

\* The follow-up batch: for _ in range(page, parts): page += 1, one GET per
\* page; results = await self.__execute(MultiTask); if results and
\* results[0]: the resources of every result are appended.
\* oks[k] tells whether the k-th request of the batch succeeded.
GetFollowUp(oks) ==
    /\ apc = "follow"
    /\ Len(oks) = Parts - page
    /\ page' = Parts
    /\ issued' = issued \o [k \in 1..Len(oks) |-> [page |-> page + k, ok |-> oks[k]]]
    /\ IF oks[1]
       THEN /\ returnResults' = AppendPages(returnResults, oks, page + 1)
            /\ apc' = IF \A k \in 1..Len(oks) : oks[k]
                      THEN "returned" ELSE "raised"
       ELSE /\ apc' = "returned"
            /\ UNCHANGED returnResults
    /\ UNCHANGED <<windows, total, api, size, hops, verification>>
    /\ UNCHANGED reqVars

NextGetApi ==
    \/ \E shape \in {"page", "other", "fail"} : GetFirstPage(shape)
    \/ \E n \in 1..((MaxTotal + maxresults) \div maxresults) :
          \E oks \in [1..n -> BOOLEAN] : GetFollowUp(oks)

SpecGetApi == InitGetApi /\ [][NextGetApi]_vars

\* ------------------------------- heuristic and link-based walks (ISE_OpenAPI)
\* A GET through ISE_OpenAPI.  The path is the sequence of its parameters
\* [k, v]; the base url inside a nextPage link is the parameter "base".
\* None is 0: the code only tests page and size for truth and compares size
\* with the length of a non-empty list.  The recursion is flattened: every
\* frame appends its own items before those its callee returns, and what
\* it does after the callee returns (page += 1) is not observable.
Param(k, v) == [k |-> k, v |-> v]

RECURSIVE Search(_, _)
\* int(search(r"page=(\d+)", api).group(1)) under the test "page=" in api:
\* the value of the first parameter named k, None without one.
Search(k, a) ==
    IF a = <<>> THEN 0
    ELSE IF Head(a).k = k THEN Head(a).v
    ELSE Search(k, Tail(a))

\* api.replace(f"page={page}", f"page={page+1}"): every occurrence.
NextPageOf(a, pg) ==
    [i \in DOMAIN a |->
        IF a[i] = Param("page", pg) THEN Param("page", pg + 1) ELSE a[i]]

\* results[0]['nextPage'].replace(self.__base_url_openapi, "")
StripBase(link) == SelectSeq(link, LAMBDA t : t.k # "base")

\* if page and (len(results[0])==size or len(results[0])==20)
ContinueWalk(pg, sz, n) == pg # 0 /\ (n = sz \/ n = 20)

RECURSIVE Served(_)
\* The server numbers the objects it hands out: the number handed out in
\* the responses of the hops h.
Served(h) == IF h = <<>> THEN 0 ELSE Served(Tail(h)) + Head(h).len
\* The n objects of the response at hand.
Fresh(n) == [i \in 1..n |-> Served(hops) + i]

\* Faulty variant of OnFailedHop: what was collected is lost.
OnFailedHopDropsAll(acc) == <<>>
\* if results and results[0]: is false on the failure marker and on an
\* empty list: the frame returns what it holds, and its callers go on to
\* append it to theirs: the list collected so far is what is returned.
OnFailedHop(acc) == acc

\* Faulty variant of LastPage: the link-less page is not collected.
LastPageDropped(acc, n) == acc
\* else: if 'response' in results[0] and results[0]['response']:
\* every result of it is appended.
LastPage(acc, n) == acc \o Fresh(n)

\* The paths the walk is started with: no parameter, a size alone, page and
\* size, a page alone.
InitialApis ==
    { <<>>,
      <<Param("size", 20)>>,
      <<Param("page", 1), Param("size", 7)>>,
      <<Param("page", 2)>> }

InitOpenApi ==
    /\ ReqIdle
    /\ windows = <<>>
    /\ total = 0
    /\ apc = "open"
    /\ page = 0
    /\ size = 0
    /\ issued = <<>>
    /\ returnResults = <<>>
    /\ api \in InitialApis
    /\ hops = <<>>
    /\ verification = "unset"

\* One frame of ISE_OpenAPI up to its request: page and size are parsed
\* from the path, results = await self.__execute([[method, url]]) is begun.
OpenRequest ==
    /\ apc = "open"
    /\ Len(hops) < MaxHops
    /\ page' = Search("page", api)
    /\ size' = Search("size", api)
    /\ hops' = Append(hops, [page |-> page', size |-> size',
                             shape |-> "pending", len |-> 0])
    /\ apc' = "wait"
    /\ UNCHANGED <<windows, total, issued, returnResults, api, verification>>
    /\ UNCHANGED reqVars

\* The rest of the frame, from the result of the request on.
\* shape: "fail" (the failure marker), "list" (a bare list of n objects),
\* "linked" (a dict with 'response' of n objects and 'nextPage'), "last"
\* (a dict with 'response' of n objects and no 'nextPage').
OpenResponse(shape, n) ==
    /\ apc = "wait"
    /\ hops' = [hops EXCEPT ![Len(hops)].shape = shape, ![Len(hops)].len = n]
    /\ CASE shape = "fail" \/ (shape = "list" /\ n = 0) ->
              /\ apc' = "returned"
              /\ returnResults' = OnFailedHop(returnResults)
              /\ UNCHANGED <<page, size, api>>
         [] shape = "linked" ->
              /\ returnResults' = returnResults \o Fresh(n)
              /\ api' = StripBase(<<Param("base", 0),
                                    Param("page", (IF page = 0 THEN 1 ELSE page) + 1),
                                    Param("size", 20)>>)
              /\ apc' = "open"
              /\ UNCHANGED <<page, size>>
         [] shape = "list" /\ n > 0 ->
              /\ returnResults' = returnResults \o Fresh(n)
              /\ page' = IF page = 0 /\ size = 0 THEN 1 ELSE page
              /\ size' = IF page = 0 /\ size = 0 THEN n ELSE size
              /\ LET inferred == IF page = 0 /\ size = 0
                                 THEN api \o <<Param("page", 1), Param("size", n)>>
                                 ELSE api
                 IN  IF ContinueWalk(page', size', n)
                     THEN /\ api' = NextPageOf(inferred, page')
                          /\ apc' = "open"
                     ELSE /\ api' = inferred
                          /\ apc' = "returned"
         [] OTHER ->
              /\ returnResults' = LastPage(returnResults, n)
              /\ apc' = "returned"
              /\ UNCHANGED <<page, size, api>>
    /\ UNCHANGED <<windows, total, issued, verification>>
    /\ UNCHANGED reqVars

\* The numbers of objects a response comes with.
PageLens == {0, 7, 20}

NextOpenApi ==
    \/ OpenRequest
    \/ \E shape \in {"fail", "list", "linked", "last"} :
          \E n \in (IF shape = "fail" THEN {0} ELSE PageLens) :
             OpenResponse(shape, n)

SpecOpenApi == InitOpenApi /\ [][NextOpenApi]_vars

\* ------------------------------------------------ both aggregators
\* A call of ISE_GET_api or a call of ISE_OpenAPI.
InitPagination == InitGetApi \/ InitOpenApi
NextPagination == NextGetApi \/ NextOpenApi
SpecPagination == InitPagination /\ [][NextPagination]_vars

\* --------------------------------- the walk against a paging server
\* A GET through ISE_OpenAPI against a server that holds the objects
\* 1..total and answers every request with the bare list of the page asked
\* for: page 1 when the path names no page, pages of DefaultPageSize
\* objects when it names no size.
DefaultPageSize == 20
WalkApis ==
    { <<>>,
      <<Param("size", 20)>>,
      <<Param("page", 1), Param("size", 20)>>,
      <<Param("page", 1), Param("size", 30)>> }

\* The page and the size the server reads from the request at hand.
ServedPage == IF page = 0 THEN 1 ELSE page
ServedSize == IF size = 0 THEN DefaultPageSize ELSE size
\* The number of objects of that page.
ServedLen == Len(Resources(ServedPage, ServedSize))

InitOpenWalk ==
    /\ ReqIdle
    /\ windows = <<>>
    /\ total \in 0..MaxItems
    /\ apc = "open"
    /\ page = 0
    /\ size = 0
    /\ issued = <<>>
    /\ returnResults = <<>>
    /\ api \in WalkApis
    /\ hops = <<>>
    /\ verification = "unset"

OpenServe == OpenResponse("list", ServedLen)

NextOpenWalk ==
    \/ OpenRequest
    \/ OpenServe

SpecOpenWalk == InitOpenWalk /\ [][NextOpenWalk]_vars

\* ------------------------------------------- boolean catalog operations
\* ISE_POST_api, ISE_DELETE_api_ids, ISE_PUT_register_endpoints,
\* ISE_PUT_deregister_endpoints, ISE_PUT_release_rejected_endpoints: a
\* batch of one mutating request per object is executed and the results
\* are looked through.
CatalogBatches(n) == { [i \in 1..n |-> [method |-> "PUT", url |-> i]] }

\* The answers of the server to these requests: success with a body, the
\* last status of the 2xx class, a 202 with a job id and one whose location
\* header ends with "submit/", a client error, the server error, no answer.
CatalogResponses ==
    { Resp(200, "json", NoHeader), Resp(299, "json", NoHeader),
      Resp(202, "none", Header(<<1, SUBMIT, 2>>)),
      Resp(202, "none", Header(<<1, SUBMIT>>)),
      Resp(404, "json", NoHeader), Resp(500, "none", NoHeader), Raised }

\* not result: true of the empty dict and of the empty string.
Falsy(result) ==
    \/ result = FailureMarker
    \/ result.kind = "jobid" /\ result.of = <<>>

InitCatalog ==
    /\ req_list \in UNION { CatalogBatches(n) : n \in 1..MaxBatch }
    /\ RATE_LIMIT = DEFAULT_RATE_LIMIT
    /\ InitRun

\* verification = True; for result in results: if not result:
\* verification = False; break; return(verification)
Verify ==
    /\ pc = "returned"
    /\ verification = "unset"
    /\ verification' = IF \E i \in 1..Len(resultsList) : Falsy(resultsList[i])
                       THEN "False" ELSE "True"
    /\ UNCHANGED <<windows, total, apc, page, issued, returnResults, api,
                   size, hops>>
    /\ UNCHANGED reqVars

NextCatalog ==
    \/ CallInline
    \/ InlineReturn
    \/ Gather
    \/ Pace
    \/ \E u \in Urls : Acquire(u)
    \/ \E u \in Urls, r \in CatalogResponses : Respond(u, r)
    \/ \E u \in Urls : Backoff(u)
    \/ Verify

SpecCatalog == InitCatalog /\ [][NextCatalog]_vars

\* ------------------------------------------ the classification specification
\* make_requests on a batch of one request, the server free to answer with
\* any status of ClassifyStatuses, any body and, on a 200 or a 202, any
\* location header of up to MaxLoc pieces.
ClassifyStatuses == {200, 201, 202, 204, 298, 299, 300, 404, 500, 502}
Bodies == {"json", "text", "none", "unreadable"}
Locs == UNION { [1..n -> {SUBMIT, 1, 2}] : n \in 0..MaxLoc }
ClassifyResponses ==
    { Resp(s, b, NoHeader) : s \in ClassifyStatuses, b \in Bodies }
    \cup { Resp(s, b, Header(v)) : s \in {200, 202}, b \in Bodies, v \in Locs }
    \cup { Raised }

InitClassify ==
    /\ req_list \in Batches(1)
    /\ RATE_LIMIT = DEFAULT_RATE_LIMIT
    /\ InitRun

NextClassify ==
    \/ CreateTask
    \/ CallInline
    \/ InlineReturn
    \/ Gather
    \/ Pace
    \/ \E u \in Urls : Acquire(u)
    \/ \E u \in Urls, r \in ClassifyResponses : Respond(u, r)
    \/ \E u \in Urls : Backoff(u)

SpecClassify == InitClassify /\ [][NextClassify]_vars

\* --------------------------------------------- the partition specification
\* returnPartionedList on its own: a list of up to MaxList entries (the empty
\* one included) and a rate limit of 1..MaxList+1, so that lists shorter
\* than, as long as and longer than a window are split.
InitPartition ==
    /\ req_list \in UNION { Batches(n) : n \in 0..MaxList }
    /\ RATE_LIMIT \in 1..(MaxList + 1)
    /\ pc = "partition"
    /\ p = 1
    /\ e = 1
    /\ partitionTasks = <<>>
    /\ resultsList = <<>>
    /\ semaphore = SEMAPHORE_VALUE
    /\ rq = [u \in Urls |-> Idle]
    /\ attempts = [u \in Urls |-> 0]
    /\ hist = [u \in Urls |-> <<>>]
    /\ slept = [u \in Urls |-> FALSE]
    /\ ret = [u \in Urls |-> FailureMarker]
    /\ LayerIdle

\* partitions = self.returnPartionedList(req_list)
Partition ==
    /\ pc = "partition"
    /\ windows' = returnPartionedList(req_list, RATE_LIMIT)
    /\ pc' = "partitioned"
    /\ UNCHANGED <<total, apc, page, issued, returnResults, api, size, hops,
                   verification>>
    /\ UNCHANGED <<req_list, RATE_LIMIT, p, e, partitionTasks, resultsList,
                   semaphore, rq, attempts, hist, slept, ret>>

NextPartition == Partition

SpecPartition == InitPartition /\ [][NextPartition]_vars

\* ------------------------------------------------- the burst specification
\* One window of BurstReads reads under the catalog layer's default rate
\* limit. The server answers a first attempt with a success or with the
\* server error, and a retry with the server error: a retry never retries
\* again and gives back the same permits whatever its answer is.
\* The executors of a window of reads run the same code on the same shared
\* state, so a state is determined, up to a renaming of the reads, by how
\* many executors stand at each position. NextBurst lets an executor step
\* only when no read before it stands at exactly the same position: every
\* distribution of the executors over the positions stays reachable, and the
\* renamings of one distribution are explored once.
BurstResponses == { Resp(200, "json", NoHeader), Resp(500, "none", NoHeader) }

InitBurst ==
    /\ req_list = [i \in 1..BurstReads |-> [method |-> "GET", url |-> i]]
    /\ RATE_LIMIT = DEFAULT_RATE_LIMIT
    /\ InitRun

Position(u) == <<rq[u], hist[u]>>
First(u) == \A v \in Urls : v < u => Position(v) # Position(u)

BurstAcquire == \E u \in Urls : Acquire(u) /\ First(u)
BurstRespond ==
    \E u \in Urls, r \in BurstResponses :
        /\ rq[u].validate => r.status = 500
        /\ Respond(u, r)
        /\ First(u)
BurstBackoff == \E u \in Urls : Backoff(u) /\ First(u)

NextBurst ==
    \/ CreateTask
    \/ Gather
    \/ Pace
    \/ BurstAcquire
    \/ BurstRespond
    \/ BurstBackoff

SpecBurst == InitBurst /\ [][NextBurst]_vars

\* ------------------------------------------------------------------ claims
\* Helpers of the statements below.
IsSuccess(r) == ~r.raised /\ r.status >= 200 /\ r.status < 299
Is500(r) == ~r.raised /\ r.status = 500
Mutating(u) == req_list[u].method # "GET"
Returned(u) == rq[u].at = "done"
LastResponse(u) == hist[u][Len(hist[u])]
\* The request ended in failure: its last attempt was not answered by a
\* success status.
Failed(u) == Returned(u) /\ ~IsSuccess(LastResponse(u))
InFlight == { u \in Urls : rq[u].at = "request" }
Window(u) == ((u - 1) \div RATE_LIMIT) + 1
Occurrences(seq, x) == Cardinality({ i \in 1..Len(seq) : seq[i] = x })

\* C1: when make_requests has returned, resultsList[i] is the result of
\* request i, for every position i of the batch.
C1_ResultsInRequestOrder ==
    pc = "returned" =>
        /\ Len(resultsList) = Len(req_list)
        /\ \A i \in Urls : resultsList[i] = ret[i]

\* C2: a make_requests call never comes to a halt before it has returned:
\* as long as it has not returned, some step of it (an attempt being
\* answered, a sleep ending, a permit being taken, the main coroutine going
\* on) is possible.
C2_NeverStuckBeforeReturn == pc = "returned" \/ ENABLED NextBurst

\* C3: when make_requests has returned there is exactly one result per
\* request; a failed request contributed the failure marker, every other
\* request its own success result, and each of them is in the list.
C3_OneResultPerRequest ==
    pc = "returned" =>
        /\ Len(resultsList) = Len(req_list)
        /\ \A u \in Urls :
            /\ Returned(u)
            /\ Failed(u) => ret[u] = FailureMarker
            /\ ~Failed(u) => ret[u] = [kind |-> "json", of |-> <<u>>]
            /\ Occurrences(resultsList, ret[u])
                 = Cardinality({ v \in Urls : ret[v] = ret[u] })
C3_Witness ==
    /\ pc = "returned"
    /\ \E u, v \in Urls : Failed(u) /\ ~Failed(v)

\* C4: a request is sent at most twice, and a second time only after its
\* first attempt was answered with status 500.
C4_AtMostTwoAttempts ==
    \A u \in Urls :
        /\ attempts[u] <= 2
        /\ attempts[u] = 2 => Len(hist[u]) >= 1 /\ Is500(hist[u][1])
C4_Witness == \E u \in Urls : attempts[u] = 2

\* C5: a request answered 500 on its first attempt and on its retry made
\* exactly two attempts and returned the failure marker, and no second
\* attempt is under way before the backoff sleep has completed.
C5_Double500 ==
    \A u \in Urls :
        /\ attempts[u] = 2 => slept[u]
        /\ (Len(hist[u]) = 2 /\ Is500(hist[u][1]) /\ Is500(hist[u][2])) =>
              /\ Returned(u)
              /\ attempts[u] = 2
              /\ ret[u] = FailureMarker
C5_Witness ==
    \E u \in Urls :
        Len(hist[u]) = 2 /\ Is500(hist[u][1]) /\ Is500(hist[u][2]) /\ Returned(u)

\* C6: after a first attempt answered 500 the final result is what the
\* answer to the retry classifies as: the success result when the retry
\* was answered by a success status, the failure marker otherwise.
C6_RetryDecides ==
    \A u \in Urls :
        (Returned(u) /\ Len(hist[u]) >= 1 /\ Is500(hist[u][1])) =>
            /\ Len(hist[u]) = 2
            /\ ret[u] = IF IsSuccess(hist[u][2])
                        THEN [kind |-> "json", of |-> <<u>>]
                        ELSE FailureMarker
C6_Witness ==
    \E u \in Urls :
        /\ Returned(u)
        /\ Len(hist[u]) = 2
        /\ Is500(hist[u][1])
        /\ IsSuccess(hist[u][2])
        /\ ret[u] = [kind |-> "json", of |-> <<u>>]

\* C7: an attempt answered by a status outside the success range and other
\* than 500, in the error table or not, ends the request at once: one
\* attempt per such answer, no retry of it, the executor returns (it does
\* not raise) and returns the failure marker.
ClientError(r) == ~r.raised /\ ~IsSuccess(r) /\ r.status # 500
C7_ClientErrorOnce ==
    \A u \in Urls :
        (Len(hist[u]) >= 1 /\ ClientError(hist[u][1])) =>
            /\ Returned(u)
            /\ Len(hist[u]) = 1
            /\ attempts[u] = 1
            /\ ret[u] = FailureMarker
C7_Witness ==
    \E u, v \in Urls :
        /\ Len(hist[u]) = 1 /\ hist[u][1].status = 404
        /\ Len(hist[v]) = 1 /\ hist[v][1].status = 502
        /\ ~hist[u][1].raised /\ ~hist[v][1].raised
        /\ Returned(u) /\ Returned(v)

\* C8: an attempt that ends in a transport exception, be it the first
\* attempt or the retry, ends the request: no further attempt is made, the
\* executor returns and returns the failure marker.
C8_TransportAbsorbed ==
    \A u \in Urls :
        (Len(hist[u]) >= 1 /\ LastResponse(u).raised) =>
            /\ Returned(u)
            /\ attempts[u] = Len(hist[u])
            /\ ret[u] = FailureMarker
C8_Witness ==
    \E u, v \in Urls :
        /\ Returned(u) /\ Len(hist[u]) = 1 /\ hist[u][1].raised
        /\ Returned(v) /\ Len(hist[v]) = 2 /\ hist[v][2].raised
        /\ pc = "returned"

\* C9: of two mutating requests of a batch the later one has not been
\* started as long as the earlier one (its backoff and retry included) has
\* not returned; so no two of them are ever in flight together.
C9_MutatingOneAtATime ==
    \A u, v \in Urls :
        (u < v /\ Mutating(u) /\ Mutating(v) /\ rq[v].at # "idle") =>
            Returned(u)
C9_Witness ==
    \E u, v \in Urls :
        /\ u < v /\ Mutating(u) /\ Mutating(v) /\ Window(u) = Window(v)
        /\ Len(hist[u]) = 2
        /\ rq[v].at = "request"

\* C10: the number of calls in flight never exceeds the permits of the
\* semaphore, also in a window of more reads than permits.
C10_InFlightWithinPermits == Cardinality(InFlight) <= SEMAPHORE_VALUE
C10_Witness ==
    /\ Cardinality(InFlight) = SEMAPHORE_VALUE
    /\ \E u \in Urls : rq[u].at = "acquire" /\ attempts[u] = 0
    /\ Len(partitions[p]) > SEMAPHORE_VALUE

\* C11: whenever no executor is in progress (each has either not been
\* called or has returned), and so when make_requests has returned, every
\* permit of the semaphore is free: each exit path of the executor gave
\* back what it had acquired.
C11_PermitsFreeWhenIdle ==
    (\A u \in Urls : rq[u].at \in {"idle", "done"}) =>
        semaphore = SEMAPHORE_VALUE
C11_Witness ==
    /\ pc = "returned"
    /\ \E u, v, w \in Urls :
        /\ Len(hist[u]) = 2 /\ Is500(hist[u][2])
        /\ Len(hist[v]) = 2 /\ hist[v][2].raised
        /\ Len(hist[w]) = 1 /\ ClientError(hist[w][1])

\* C12: a request of a later window has not been started as long as a
\* request of an earlier window has not returned, and not before the pacing
\* sleep that follows each earlier window has elapsed (p counts the windows
\* entered, and only the end of a pacing sleep enters the next one).
C12_WindowsInSequence ==
    \A v \in Urls :
        rq[v].at # "idle" =>
            /\ p >= Window(v)
            /\ \A u \in Urls : Window(u) < Window(v) => Returned(u)
C12_Witness ==
    \E u, v \in Urls :
        /\ Window(u) < Window(v)
        /\ ~Mutating(u)
        /\ Len(hist[u]) = 2
        /\ rq[v].at = "request"

\* C13: for a rate limit of at least 1, returnPartionedList returns windows
\* whose concatenation is the input list; no window is empty or longer than
\* the rate limit, and every window but the last has exactly rate-limit
\* entries. (A rate limit of 0 makes range() raise and a negative one yields
\* no window at all: neither is a window size.)
RECURSIVE Concat(_)
Concat(seqs) == IF seqs = <<>> THEN <<>> ELSE Head(seqs) \o Concat(Tail(seqs))
C13_PartitionIsExact ==
    pc = "partitioned" =>
        /\ Concat(windows) = req_list
        /\ \A w \in 1..Len(windows) :
            /\ Len(windows[w]) >= 1
            /\ Len(windows[w]) <= RATE_LIMIT
            /\ w < Len(windows) => Len(windows[w]) = RATE_LIMIT
C13_Witness ==
    /\ pc = "partitioned"
    /\ Len(req_list) = 5
    /\ RATE_LIMIT = 2
    /\ [w \in 1..Len(windows) |-> Len(windows[w])] = <<2, 2, 1>>

\* C14: when make_requests raises for a batch that is empty or holds a
\* malformed entry, no request of that batch has been sent.
C14_RaisedBeforeAnySend ==
    pc = "raised" => \A u \in Urls : attempts[u] = 0

\* C15 as stated: when the first page reports the total T and every request
\* succeeds, ceil(T/100) requests have been issued in all, for the pages
\* 1..ceil(T/100) in this order, and the list returned holds the objects of
\* the pages in page order.
AllPagesServed ==
    /\ apc = "returned"
    /\ \A k \in 1..Len(issued) : issued[k].ok
    /\ returnResults # <<0>>
CeilPages(t) == (t + maxresults - 1) \div maxresults
C15_CeilRequests ==
    AllPagesServed =>
        /\ issued = [k \in 1..CeilPages(total) |-> [page |-> k, ok |-> TRUE]]
        /\ returnResults = [i \in 1..total |-> i]

\* C15 amended: the request for page 1 is issued whatever the total is, so
\* the requests issued are those of the pages 1..max(1, ceil(T/100)).
C15_CeilRequestsAtLeastOne ==
    AllPagesServed =>
        /\ issued = [k \in 1..(IF total = 0 THEN 1 ELSE CeilPages(total)) |->
                        [page |-> k, ok |-> TRUE]]
        /\ returnResults = [i \in 1..total |-> i]
C15_Witness ==
    /\ AllPagesServed
    /\ total = 250
    /\ Len(issued) = 3
    /\ Len(returnResults) = 250

\* The k-th request of the walk is followed by another one.
Followed(k) == k < Len(hops) \/ (k = Len(hops) /\ apc = "open")
\* The page number and the size in effect when the response of the k-th
\* request is looked at.
PageAt(k) == IF hops[k].page = 0 /\ hops[k].size = 0 THEN 1 ELSE hops[k].page
SizeAt(k) == IF hops[k].page = 0 /\ hops[k].size = 0 THEN hops[k].len ELSE hops[k].size
\* The path of the request after the k-th asks for the next page with the
\* same size.
AsksNextPage(k) ==
    LET a == IF k < Len(hops)
             THEN <<Param("page", hops[k + 1].page), Param("size", hops[k + 1].size)>>
             ELSE <<Param("page", Search("page", api)), Param("size", Search("size", api))>>
    IN  a = <<Param("page", PageAt(k) + 1), Param("size", SizeAt(k))>>
BareListPage(k) == hops[k].shape = "list" /\ hops[k].len > 0

\* C16: after every bare-list page the next page (page+1, same
\* size) is requested if and only if the length of the page equals the page
\* size in effect or 20.
C16_NextIffFull ==
    \A k \in 1..Len(hops) :
        BareListPage(k) =>
            /\ Followed(k) <=> (hops[k].len = SizeAt(k) \/ hops[k].len = 20)
            /\ Followed(k) => AsksNextPage(k)

\* The rule of C16 where the page number is known, that is when the path
\* carries a page parameter or carries neither page nor size.
NextIffFullPageKnown ==
    \A k \in 1..Len(hops) :
        BareListPage(k) /\ ~(hops[k].page = 0 /\ hops[k].size # 0) =>
            /\ Followed(k) <=> (hops[k].len = SizeAt(k) \/ hops[k].len = 20)
            /\ Followed(k) => AsksNextPage(k)

\* Every response received so far is a dict with 'response', with or
\* without 'nextPage'.
LinkWalk ==
    \A k \in 1..Len(hops) : hops[k].shape \in {"linked", "last", "pending"}

\* C17: in a link-based walk a request is issued only when all requests
\* before it are answered; a response with nextPage is followed by another
\* request and one without ends the walk; the list collected is the
\* concatenation of the items of all pages in the order visited, those of
\* the link-less page included.
C17_LinkWalkInOrder ==
    /\ \A k \in 1..(Len(hops) - 1) : hops[k].shape # "pending"
    /\ LinkWalk =>
          /\ \A k \in 1..Len(hops) :
                /\ hops[k].shape = "linked" => Followed(k)
                /\ hops[k].shape = "last" => k = Len(hops) /\ apc = "returned"
          /\ returnResults = [i \in 1..Served(hops) |-> i]
C17_Witness ==
    /\ LinkWalk
    /\ apc = "returned"
    /\ Len(hops) = 3
    /\ hops[1].shape = "linked" /\ hops[1].len = 20
    /\ hops[2].shape = "linked" /\ hops[2].len = 20
    /\ hops[3].shape = "last" /\ hops[3].len = 7
    /\ Len(returnResults) = 47

\* The response of the k-th attempt of u came with a status.
Answered(u, k) == ~hist[u][k].raised
\* What the body decoding makes of a body that can be read.
Decoded(u, r) ==
    [kind |-> IF r.body = "none" THEN "OK" ELSE r.body, of |-> <<u>>]

\* C18: a response with a status of 200 to 299, its body received, is a
\* success: the attempt returns, it is not followed by another attempt,
\* its result is not the failure marker, and with an empty body the result
\* is the acknowledgement.
C18_SuccessRangeInclusive ==
    \A u \in Urls : \A k \in 1..Len(hist[u]) :
        ( /\ Answered(u, k)
          /\ hist[u][k].status \in 200..299
          /\ hist[u][k].body # "unreadable" ) =>
            /\ k = Len(hist[u])
            /\ rq[u] = Done
            /\ ret[u] # FailureMarker
            /\ (hist[u][k].body = "none" /\ hist[u][k].status # 202)
                  => ret[u].kind = "OK"

\* The same for the statuses 200 to 298.
SuccessBelow299 ==
    \A u \in Urls : \A k \in 1..Len(hist[u]) :
        ( /\ Answered(u, k)
          /\ hist[u][k].status \in 200..298
          /\ hist[u][k].body # "unreadable" ) =>
            /\ k = Len(hist[u])
            /\ rq[u] = Done
            /\ ret[u] # FailureMarker
            /\ (hist[u][k].body = "none" /\ hist[u][k].status # 202)
                  => ret[u].kind = "OK"

\* C19: the result of a 202 whose location header holds "submit/" is what
\* follows the first "submit/" in the header; without the header, or
\* without "submit/" in it, the result is the decoded body.
C19_JobIdAfterFirstMarker ==
    \A u \in Urls : \A k \in 1..Len(hist[u]) :
        LET r == hist[u][k] IN
        Answered(u, k) /\ r.status = 202 =>
            /\ rq[u] = Done
            /\ IF r.loc.has /\ (\E i \in DOMAIN r.loc.v : r.loc.v[i] = SUBMIT)
               THEN /\ ret[u].kind = "jobid"
                    /\ \E i \in DOMAIN r.loc.v :
                          /\ r.loc.v[i] = SUBMIT
                          /\ \A j \in 1..(i - 1) : r.loc.v[j] # SUBMIT
                          /\ ret[u].of = SubSeq(r.loc.v, i + 1, Len(r.loc.v))
               ELSE r.body # "unreadable" => ret[u] = Decoded(u, r)
C19_Witness ==
    \E u \in Urls :
        /\ rq[u] = Done
        /\ hist[u] = <<Resp(202, "json", Header(<<1, SUBMIT, 2>>))>>
        /\ ret[u] = [kind |-> "jobid", of |-> <<2>>]

\* The executor of u has got past the entry of "async with semaphore".
Started(u) == attempts[u] > 0 \/ rq[u].at \notin {"idle", "acquire"}

\* C20: the reads of a window are launched together and collected at its
\* end, so that they can be in flight at the same time: a read has started
\* only when every entry of its window has been launched or the main
\* coroutine waits for a mutating request after it, and as long as the
\* window is not over resultsList holds, beside the results of the windows
\* before, results of mutating requests only.
C20_ReadsLaunchedTogether ==
    /\ \A u \in Urls :
          (req_list[u].method = "GET" /\ Started(u)) =>
              \/ \A v \in Urls : Window(v) = Window(u) => rq[v].at # "idle"
              \/ \E w \in Urls :
                    /\ Window(w) = Window(u) /\ w > u
                    /\ req_list[w].method # "GET"
                    /\ rq[w].at # "idle"
    /\ pc \in {"entries", "await"} =>
          Len(resultsList) <= (p - 1) * RATE_LIMIT
              + Cardinality({ u \in Urls : /\ Window(u) = p
                                           /\ req_list[u].method # "GET"
                                           /\ Returned(u) })
C20_Witness ==
    \E u, v \in Urls :
        /\ u # v /\ Window(u) = Window(v)
        /\ req_list[u].method = "GET" /\ req_list[v].method = "GET"
        /\ rq[u].at = "request" /\ rq[v].at = "request"

\* C21: the result of a 201 and of a 204 is a synthetic acknowledgement,
\* whatever the body of the response.
C21_CreatedAndNoContentAcks ==
    \A u \in Urls : \A k \in 1..Len(hist[u]) :
        ( /\ Answered(u, k)
          /\ hist[u][k].status \in {201, 204}
          /\ hist[u][k].body # "unreadable" ) =>
            /\ rq[u] = Done
            /\ ret[u].kind = "OK"

\* C22: a request holds at most one permit at any moment, and none while it
\* sleeps the backoff or waits for the permit of its retry.  In a batch of
\* one request the permits held by the request are those missing from the
\* semaphore.
C22_AtMostOnePermitHeld ==
    Len(req_list) = 1 =>
        /\ SEMAPHORE_VALUE - semaphore <= 1
        /\ \A u \in Urls :
              (rq[u].at = "sleep" \/ (rq[u].at = "acquire" /\ rq[u].validate))
                  => semaphore = SEMAPHORE_VALUE

\* The requests of window w in queue order, and in the order of their
\* results: the mutating ones, then the reads.
WindowRequests(w) ==
    SubSeq([u \in Urls |-> u], (w - 1) * RATE_LIMIT + 1,
           Min(w * RATE_LIMIT, Len(req_list)))
SegmentOrder(w) ==
    SelectSeq(WindowRequests(w), Mutating)
        \o SelectSeq(WindowRequests(w), LAMBDA u : ~Mutating(u))
ResultOrder == Concat([w \in 1..Len(partitions) |-> SegmentOrder(w)])
UniformWindows ==
    \A u, v \in Urls : Window(u) = Window(v) => (Mutating(u) <=> Mutating(v))

\* C23: the list returned is made of one segment per window, in window
\* order; the segment of a window holds the results of its mutating
\* requests in queue order, then those of its reads in queue order.  When
\* no window mixes reads and mutating requests, result i is the result of
\* request i.
C23_SegmentsPerWindow ==
    pc = "returned" =>
        /\ resultsList = [i \in 1..Len(req_list) |-> ret[ResultOrder[i]]]
        /\ UniformWindows => \A i \in Urls : resultsList[i] = ret[i]
C23_Witness ==
    /\ pc = "returned"
    /\ Len(req_list) = 3
    /\ RATE_LIMIT = 2
    /\ ~Mutating(1) /\ Mutating(2) /\ ~Mutating(3)
    /\ \A u \in Urls : ~Failed(u)
    /\ resultsList = <<ret[2], ret[1], ret[3]>>

\* C24: when a request of the follow-up batch (page 2 or later) has
\* yielded the failure marker, ISE_GET_api returns, and returns the
\* objects of the first page and of every page fetched, in page order.
C24_PartialFailureTolerated ==
    (\E k \in 2..Len(issued) : ~issued[k].ok) =>
        /\ apc = "returned"
        /\ returnResults =
              Concat([k \in 1..Len(issued) |->
                         IF issued[k].ok
                         THEN Resources(issued[k].page, maxresults)
                         ELSE <<>>])

\* The objects handed out by the responses before the k-th are those of the
\* pages before the page the k-th request asks for, so that the objects of
\* the k-th response are the next ones of the server's list.
ServedInSequence(k) ==
    Served(SubSeq(hops, 1, k - 1)) =
        Min(total, ((IF hops[k].page = 0 THEN 1 ELSE hops[k].page) - 1)
                     * (IF hops[k].size = 0 THEN DefaultPageSize ELSE hops[k].size))
EmptyResponses ==
    { k \in 1..Len(hops) : hops[k].shape = "list" /\ hops[k].len = 0 }

\* C25: against a server of finitely many objects that serves consistent
\* bare-list pages the walk ends, within the requests that the pages of the
\* list and one more take; it returns every object once, in the order of the
\* server, and at most one of its requests comes back empty.
C25_WalkReturnsAll ==
    /\ Len(hops) <= (total \div DefaultPageSize) + 2
    /\ apc = "open" => Len(hops) < MaxHops
    /\ apc = "returned" =>
          /\ \A k \in 1..Len(hops) : ServedInSequence(k)
          /\ returnResults = [i \in 1..total |-> i]
          /\ Cardinality(EmptyResponses) <= 1

\* The same for the paths that name a page or name no size.
WalkReturnsAllPageKnown ==
    (Search("size", api) = 0 \/ Search("page", api) # 0) => C25_WalkReturnsAll

\* C26: when the path of the first request names no page and its response
\* is a bare list as long as the size in effect or as 20, the walk goes on
\* with a request for page 2, also when the path names a size.
C26_FirstPageIsPageOne ==
    ( /\ Len(hops) >= 1
      /\ BareListPage(1)
      /\ hops[1].page = 0
      /\ (hops[1].len = SizeAt(1) \/ hops[1].len = 20) ) =>
        /\ Followed(1)
        /\ IF Len(hops) >= 2 THEN hops[2].page = 2
           ELSE Search("page", api) = 2

\* The executor of u has been called and has not returned.
InProgress(u) == rq[u].at \notin {"idle", "done"}

\* C27: a read and a mutating request of one window are in progress
\* together only when the read comes before the mutating request in the
\* batch; a read that comes after it is not launched before the mutating
\* request, its retry included, has returned.
C27_ReadOverlapsOnlyLaterWrite ==
    \A r, m \in Urls :
        (Window(r) = Window(m) /\ ~Mutating(r) /\ Mutating(m)) =>
            /\ (InProgress(r) /\ InProgress(m)) => r < m
            /\ (m < r /\ rq[r].at # "idle") => Returned(m)
C27_Witness ==
    \E r, m, q \in Urls :
        /\ Window(r) = Window(m) /\ Window(q) = Window(m)
        /\ r < m /\ m < q
        /\ ~Mutating(r) /\ Mutating(m) /\ ~Mutating(q)
        /\ rq[r].at = "request"
        /\ rq[m].at = "request" /\ rq[m].validate
        /\ rq[q].at = "idle"

\* C28: when the first request of ISE_GET_api or of an ISE_OpenAPI walk has
\* yielded the failure marker, no other request is issued and the empty
\* list is returned; when a later request of a walk has, it is the last
\* one and what the pages before it held is returned.
C28_FailedHopEndsWalk ==
    /\ (issued # <<>> /\ ~issued[1].ok) =>
          /\ Len(issued) = 1
          /\ apc = "returned"
          /\ returnResults = <<>>
    /\ \A k \in 1..Len(hops) :
          hops[k].shape = "fail" =>
              /\ k = Len(hops)
              /\ apc = "returned"
              /\ returnResults = [i \in 1..Served(hops) |-> i]
C28_Witness ==
    /\ apc = "returned"
    /\ Len(hops) = 3
    /\ hops[1].shape = "list" /\ hops[1].len = 20
    /\ hops[2].shape = "linked" /\ hops[2].len = 7
    /\ hops[3].shape = "fail"
    /\ Len(returnResults) = 27
\* The first request of either aggregator has failed.
ProbeFailed ==
    /\ apc = "returned"
    /\ returnResults = <<>>
    /\ \/ issued = <<[page |-> 1, ok |-> FALSE]>>
       \/ Len(hops) = 1 /\ hops[1].shape = "fail"

\* The last attempt of u was answered with a status of the 2xx class.
Got2xx(u) ==
    /\ Returned(u)
    /\ ~LastResponse(u).raised
    /\ LastResponse(u).status \in 200..299

\* C29: a boolean catalog operation returns True when every request of its
\* batch got a 2xx response, on its first attempt or on its retry, and
\* False when at least one request did not.
C29_TrueIffAllSucceeded ==
    verification # "unset" =>
        (verification = "True" <=> \A u \in Urls : Got2xx(u))

\* The same when no response has the status 299 and no location header
\* ends with "submit/".
TrueIffAllSucceededBelow299 ==
    ( /\ verification # "unset"
      /\ \A u \in Urls : \A k \in 1..Len(hist[u]) :
            /\ hist[u][k].status # 299
            /\ hist[u][k].loc # Header(<<1, SUBMIT>>) ) =>
        (verification = "True" <=> \A u \in Urls : Got2xx(u))

====
